---- MODULE Spec2Model ----
(***************************************************************************)
(* Model of bot.py: the aiogram dispatcher with its handlers in            *)
(* registration order, the per-user FSM storage (state tag + data), and    *)
(* the global `users` registry holding each user's profile and per-day     *)
(* ledgers.                                                                *)
(*                                                                         *)
(* Values.  A message text is a sequence of one-character strings; an      *)
(* Optional value is a sequence of length <= 1 (None == <<>>).  A Python   *)
(* float read from a text is a record [nan, t] where t counts tenths; the  *)
(* calorie accumulators count 1/10000 kcal (tenths * tenths / 100).        *)
(* Cyrillic letters are written "cy_x" / "CY_X" (lower / upper case).      *)
(***************************************************************************)
EXTENDS Integers, Sequences, FiniteSets, TLC

VARIABLES
    users,      \* the registry: user id -> None | Some([profile, days])
    fsm_state,  \* MemoryStorage: user id -> None | Some(state name)
    fsm_data,   \* MemoryStorage: user id -> the session's collected fields
    today,      \* the date of the process clock
    owm_key,    \* whether OWM_API_KEY is set
    last,       \* the last update handled: who, which handler, reply, provider calls
    steps       \* updates and date changes so far

vars == <<users, fsm_state, fsm_data, today, owm_key, last, steps>>

(***************************************************************************)
(* Bounds                                                                  *)
(***************************************************************************)
\* messages and date changes that may still be handled
MaxSteps == 10
\* the last calendar day the clock can reach (days are 1 .. MaxDay)
MaxDay == 2

Users == {1, 2}

None == <<>>
Some(x) == <<x>>
IsNone(o) == o = <<>>
Get(o) == o[1]

(***************************************************************************)
(* Python floats                                                           *)
(***************************************************************************)
NaN == [nan |-> TRUE, t |-> 0]
Num(t) == [nan |-> FALSE, t |-> t]
\* comparisons with NaN are all False
FLe(a, n) == ~a.nan /\ a.t <= n
FLt(a, n) == ~a.nan /\ a.t < n
FGt(a, n) == ~a.nan /\ a.t > n
FAdd(a, b) == IF a.nan \/ b.nan THEN NaN ELSE Num(a.t + b.t)

(***************************************************************************)
(* str methods                                                             *)
(***************************************************************************)
Digits == {"0", "1", "2", "3", "4", "5", "6", "7", "8", "9"}

DigitVal(c) ==
    CASE c = "0" -> 0 [] c = "1" -> 1 [] c = "2" -> 2 [] c = "3" -> 3
      [] c = "4" -> 4 [] c = "5" -> 5 [] c = "6" -> 6 [] c = "7" -> 7
      [] c = "8" -> 8 [] c = "9" -> 9

LowerChar(c) ==
    CASE c = "N" -> "n" [] c = "O" -> "o" [] c = "A" -> "a" [] c = "B" -> "b"
      [] c = "E" -> "e" [] c = "G" -> "g"
      [] c = "CY_N" -> "cy_n" [] c = "CY_E" -> "cy_e" [] c = "CY_T" -> "cy_t"
      [] c = "CY_B" -> "cy_b" [] c = "CY_G" -> "cy_g"
      [] OTHER -> c

\* str.lower()
Lower(s) == [i \in 1..Len(s) |-> LowerChar(s[i])]

\* str.replace(",", ".")
ReplaceComma(s) == [i \in 1..Len(s) |-> IF s[i] = "," THEN "." ELSE s[i]]

RECURSIVE LStrip(_)
LStrip(s) == IF s # <<>> /\ Head(s) = " " THEN LStrip(Tail(s)) ELSE s

RECURSIVE RStrip(_)
RStrip(s) ==
    IF s # <<>> /\ s[Len(s)] = " " THEN RStrip(SubSeq(s, 1, Len(s) - 1)) ELSE s

\* str.strip()
Strip(s) == RStrip(LStrip(s))

\* index of the first blank of s, Len(s) + 1 when it has none
RECURSIVE FirstBlank(_, _)
FirstBlank(s, i) ==
    IF i > Len(s) \/ s[i] = " " THEN i ELSE FirstBlank(s, i + 1)

\* str.split(): the blank-separated words of s
RECURSIVE Split(_)
Split(s) ==
    LET r == LStrip(s)
        k == FirstBlank(r, 1)
    IN  IF r = <<>> THEN <<>>
        ELSE <<SubSeq(r, 1, k - 1)>> \o Split(SubSeq(r, k, Len(r)))

\* " ".join(words)
RECURSIVE Join(_)
Join(ws) ==
    IF ws = <<>> THEN <<>>
    ELSE IF Len(ws) = 1 THEN ws[1]
    ELSE ws[1] \o <<" ">> \o Join(Tail(ws))

AllDigits(s) == s # <<>> /\ \A i \in 1..Len(s) : s[i] \in Digits

RECURSIVE DecVal(_)
DecVal(s) ==
    IF s = <<>> THEN 0 ELSE 10 * DecVal(SubSeq(s, 1, Len(s) - 1)) + DigitVal(s[Len(s)])

\* an optional leading sign: <<sign, rest>>
Signed(s) ==
    IF s # <<>> /\ Head(s) = "-" THEN <<-1, Tail(s)>>
    ELSE IF s # <<>> /\ Head(s) = "+" THEN <<1, Tail(s)>>
    ELSE <<1, s>>

\* int(s): Some(n), or None where Python raises ValueError
ParseInt(s) ==
    LET p == Signed(Strip(s))
    IN  IF AllDigits(p[2]) THEN Some(p[1] * DecVal(p[2])) ELSE None

\* index of the first "." of s, 0 when it has none
RECURSIVE DotAt(_, _)
DotAt(s, i) ==
    IF i > Len(s) THEN 0 ELSE IF s[i] = "." THEN i ELSE DotAt(s, i + 1)

\* float(s): Some(float), or None where Python raises ValueError.  The
\* literal "nan" (any case, optional sign) is a float; a decimal has digits
\* around one optional "."; the texts of the model carry at most one digit
\* after it, so tenths are exact.
ParseFloat(s) ==
    LET p == Signed(Lower(Strip(s)))
        b == p[2]
        d == DotAt(b, 1)
        ip == IF d = 0 THEN b ELSE SubSeq(b, 1, d - 1)
        fp == IF d = 0 THEN <<>> ELSE SubSeq(b, d + 1, Len(b))
    IN  IF b = <<"n", "a", "n">> THEN Some(NaN)
        ELSE IF (ip # <<>> \/ fp # <<>>)
                /\ (ip = <<>> \/ AllDigits(ip))
                /\ (fp = <<>> \/ (AllDigits(fp) /\ Len(fp) = 1))
        THEN Some(Num(p[1] * (10 * DecVal(ip) + DecVal(fp))))
        ELSE None

(***************************************************************************)
(* The registry `users` and the per-day ledgers                            *)
(***************************************************************************)
NoDays == [d \in {} |-> 0]

NewLedger ==
    [water_ml |-> 0, cal_in |-> Num(0), cal_out |-> Num(0),
     workout_extra_water_ml |-> 0, foods |-> <<>>, workouts |-> <<>>]

\* today_key as it would be if the date were taken once, when the process starts
today_key_at_start(clock) == 1

\* today_key(): the date of the process clock
today_key(clock) == clock

ensure_user(us, user_id) ==
    IF IsNone(us[user_id])
    THEN [us EXCEPT ![user_id] = Some([profile |-> None, days |-> NoDays])]
    ELSE us

ensure_day(us, user_id, day) ==
    LET u1 == ensure_user(us, user_id)
        days == Get(u1[user_id]).days
    IN  IF day \notin DOMAIN days
        THEN [u1 EXCEPT ![user_id] = Some([Get(u1[user_id]) EXCEPT !.days = (day :> NewLedger) @@ days])]
        ELSE u1

\* profile_of returns users[user_id]["profile"] of the registry ensure_user leaves
profile_of(us, user_id) == Get(ensure_user(us, user_id)[user_id]).profile

\* users[user_id]["days"][day]
DayOf(us, user_id, day) == Get(us[user_id]).days[day]

\* users[user_id]["days"][day] = d
PutDay(us, user_id, day, d) ==
    [us EXCEPT ![user_id] = Some([Get(us[user_id]) EXCEPT !.days = (day :> d) @@ Get(us[user_id]).days])]

\* the assignment as it would be if every user's entry were one shared dict
PutProfile_in_shared_entry(us, user_id, profile) ==
    [v \in DOMAIN us |->
        IF IsNone(us[v]) THEN us[v] ELSE Some([Get(us[v]) EXCEPT !.profile = Some(profile)])]

\* users[user_id]["profile"] = profile
PutProfile(us, user_id, profile) ==
    [us EXCEPT ![user_id] = Some([Get(us[user_id]) EXCEPT !.profile = Some(profile)])]

(***************************************************************************)
(* External providers: the outcome of a call is the environment's choice   *)
(***************************************************************************)
\* what the weather request can come to: any failure (None), or a temperature
\* (25.0 and 30.0, the two thresholds of the water goal, and 30.1)
WeatherOutcomes == {None, Some(Num(250)), Some(Num(300)), Some(Num(301))}

\* get_temp_c under the provider outcome `outcome`
get_temp_c(key, city, outcome) == IF ~key THEN None ELSE outcome

\* the provider requests get_temp_c makes
TempCalls(key) == IF key THEN <<"weather">> ELSE <<>>

SepChars == {" ", "/", "_", ",", ".", "-", "+", "@", "'"}

\* ch.isalnum() or ch.isspace()
KeptByNorm(ch) == ch = " " \/ ch \notin SepChars

RECURSIVE Filter(_)
Filter(s) ==
    IF s = <<>> THEN <<>>
    ELSE IF KeptByNorm(Head(s)) THEN <<LowerChar(Head(s))>> \o Filter(Tail(s))
    ELSE Filter(Tail(s))

_norm(s) == Strip(Filter(s))

\* a in b, for strings
Contains(a, b) ==
    \E i \in 1..(Len(b) + 1) : i + Len(a) - 1 <= Len(b) /\ SubSeq(b, i, i + Len(a) - 1) = a

\* the default product name "Продукт"
DefaultName == <<"CY_P", "cy_r", "cy_o", "cy_d", "cy_u", "cy_k", "cy_t">>

\* score of one product name against the normalised query
Score(qn, name) ==
    LET nn == _norm(name)
        ws == Split(qn)
        hits == {i \in 1..Len(ws) : ws[i] # <<>> /\ Contains(ws[i], nn)}
    IN  (IF qn # <<>> /\ Contains(qn, nn) THEN 3 ELSE 0) + 2 * Cardinality(hits)

\* kcal per 100 g of one product: energy-kcal_100g, else energy_100g / 4.184
\* (tenths; the kJ values of the model divide exactly), None when it has neither
KcalOf(p) ==
    IF ~IsNone(p.kcal) THEN p.kcal
    ELSE IF IsNone(p.kj) THEN None
    ELSE IF Get(p.kj).nan THEN Some(NaN)
    ELSE Some(Num((Get(p.kj).t * 1000) \div 4184))

\* p.get("product_name") or p.get("generic_name") or "Продукт"
NameOf(p) ==
    IF ~IsNone(p.name) /\ Get(p.name) # <<>> THEN Get(p.name)
    ELSE IF ~IsNone(p.generic) /\ Get(p.generic) # <<>> THEN Get(p.generic)
    ELSE DefaultName

\* the loop as it would be if a candidate replaced an equally scored best
RECURSIVE BestOf_last_of_equals(_, _, _)
BestOf_last_of_equals(products, qn, best) ==
    IF products = <<>> THEN best
    ELSE LET p == Head(products)
             k == KcalOf(p)
             cand == <<Score(qn, NameOf(p)), NameOf(p), Get(k)>>
         IN  IF IsNone(k) THEN BestOf_last_of_equals(Tail(products), qn, best)
             ELSE IF IsNone(best) \/ cand[1] >= Get(best)[1]
             THEN BestOf_last_of_equals(Tail(products), qn, Some(cand))
             ELSE BestOf_last_of_equals(Tail(products), qn, best)

\* the loop over products: best is None or Some(<<score, name, kcal>>)
RECURSIVE BestOf(_, _, _)
BestOf(products, qn, best) ==
    IF products = <<>> THEN best
    ELSE LET p == Head(products)
             k == KcalOf(p)
             cand == <<Score(qn, NameOf(p)), NameOf(p), Get(k)>>
         IN  IF IsNone(k) THEN BestOf(Tail(products), qn, best)
             ELSE IF IsNone(best) \/ cand[1] > Get(best)[1]
             THEN BestOf(Tail(products), qn, Some(cand))
             ELSE BestOf(Tail(products), qn, best)

\* get_food_kcal_100g under the provider response `response`: None for a
\* failed request (status, network, payload), else the product list
get_food_kcal_100g(query, response) ==
    IF IsNone(response) THEN None
    ELSE LET best == BestOf(Get(response), _norm(query), None)
         IN  IF IsNone(best) THEN None
             ELSE Some([name |-> Get(best)[2], kcal_100g |-> Get(best)[3]])

(***************************************************************************)
(* Goal calculator                                                         *)
(***************************************************************************)
\* weights (tenths) whose float product weight * 30 falls just under the integer
BaseRoundsDown ==
    {41, 82, 164, 169, 323, 328, 333, 338, 641, 646, 651, 656, 661, 666, 671,
     676, 681, 1282, 1287, 1292, 1297, 1302, 1307, 1312, 1317, 1322, 1327,
     1332, 1337, 1342, 1347, 1352, 1357, 1362, 2564, 2569, 2574, 2579, 2584,
     2589, 2594, 2599, 2604, 2609, 2614, 2619, 2624, 2629, 2634, 2639, 2644,
     2649, 2654, 2659, 2664, 2669, 2674, 2679, 2684, 2689, 2694, 2699, 2704,
     2709, 2714, 2719, 2724, 2729}

\* minutes whose float quotient (minutes / 30) * 200 falls just under the integer
ExtraRoundsDown ==
    {69, 123, 138, 153, 246, 261, 276, 291, 306, 492, 507, 522, 537, 552, 567,
     582, 597}

\* int(x) of the rational n / d: truncation toward zero
Trunc(n, d) == IF n >= 0 THEN n \div d ELSE -((-n) \div d)

\* calc_water_goal_ml as it would be with the two heat extras exchanged
calc_water_goal_ml_heat_exchanged(profile, temp_c, workout_extra_ml) ==
    LET w == profile.weight
        base == 3 * w.t - (IF w.t \in BaseRoundsDown THEN 1 ELSE 0)
        activity_extra == Trunc(profile.activity_min * 500, 30)
        heat_extra ==
            IF IsNone(temp_c) THEN 0
            ELSE IF FGt(Get(temp_c), 300) THEN 500
            ELSE IF FGt(Get(temp_c), 250) THEN 1000
            ELSE 0
    IN  IF w.nan THEN None
        ELSE Some(base + activity_extra + heat_extra + workout_extra_ml)

\* calc_water_goal_ml: Some(goal), or None where int() raises on NaN
calc_water_goal_ml(profile, temp_c, workout_extra_ml) ==
    LET w == profile.weight
        base == 3 * w.t - (IF w.t \in BaseRoundsDown THEN 1 ELSE 0)
        activity_extra == Trunc(profile.activity_min * 500, 30)
        heat_extra ==
            IF IsNone(temp_c) THEN 0
            ELSE IF FGt(Get(temp_c), 300) THEN 1000
            ELSE IF FGt(Get(temp_c), 250) THEN 500
            ELSE 0
    IN  IF w.nan THEN None
        ELSE Some(base + activity_extra + heat_extra + workout_extra_ml)

\* calc_calorie_goal as it would be with the override applied only when it
\* exceeds the computed goal
calc_calorie_goal_override_as_minimum(profile) ==
    LET w == profile.weight
        h == profile.height
        goal == Trunc(24 * w.t + 15 * h.t - 120 * profile.age + 160 * profile.activity_min, 24)
    IN  IF w.nan \/ h.nan THEN None
        ELSE IF ~IsNone(profile.calorie_goal_override)
                /\ Get(profile.calorie_goal_override) > goal
        THEN Some(Get(profile.calorie_goal_override))
        ELSE Some(goal)

\* calc_calorie_goal: Some(goal), or None where int() raises on NaN
\* 10*w + 6.25*h - 5*a + (m/30)*200 = (24*wt + 15*ht - 120*a + 160*m) / 24
calc_calorie_goal(profile) ==
    LET w == profile.weight
        h == profile.height
        goal == Trunc(24 * w.t + 15 * h.t - 120 * profile.age + 160 * profile.activity_min, 24)
    IN  IF w.nan \/ h.nan THEN None
        ELSE IF ~IsNone(profile.calorie_goal_override)
        THEN Some(Get(profile.calorie_goal_override))
        ELSE Some(goal)

W_beg == <<"cy_b", "cy_e", "cy_g">>
W_hodba == <<"cy_h", "cy_o", "cy_d", "cy_soft", "cy_b", "cy_a">>
W_velosiped == <<"cy_v", "cy_e", "cy_l", "cy_o", "cy_s", "cy_i", "cy_p", "cy_e", "cy_d">>
W_plavanie == <<"cy_p", "cy_l", "cy_a", "cy_v", "cy_a", "cy_n", "cy_i", "cy_e">>
W_silovaya == <<"cy_s", "cy_i", "cy_l", "cy_o", "cy_v", "cy_a", "cy_ya">>
W_yoga == <<"cy_j", "cy_o", "cy_g", "cy_a">>

\* MET.get(workout_type.lower(), 6.0), in tenths
MET(workout_type) ==
    LET k == Lower(workout_type)
    IN  CASE k = W_beg -> 98
          [] k = W_hodba -> 35
          [] k = W_velosiped -> 75
          [] k = W_plavanie -> 80
          [] k = W_silovaya -> 60
          [] k = W_yoga -> 30
          [] OTHER -> 60

\* round(n / d) for n >= 0: half to even
RoundHalfEven(n, d) ==
    LET q == n \div d
        r == n % d
    IN  IF 2 * r < d THEN q
        ELSE IF 2 * r > d THEN q + 1
        ELSE IF q % 2 = 0 THEN q ELSE q + 1

\* calc_burned_kcal as it would be with int() in place of int(round())
calc_burned_kcal_truncating(workout_type, minutes, weight) ==
    IF weight.nan THEN None
    ELSE Some(Trunc(MET(workout_type) * weight.t * minutes, 6000))

\* calc_burned_kcal: Some(kcal), or None where round() raises on NaN
calc_burned_kcal(workout_type, minutes, weight) ==
    IF weight.nan THEN None
    ELSE Some(RoundHalfEven(MET(workout_type) * weight.t * minutes, 6000))

\* int((minutes / 30) * 200)
ExtraWater(minutes) ==
    Trunc(minutes * 200, 30) - (IF minutes \in ExtraRoundsDown THEN 1 ELSE 0)

(***************************************************************************)
(* Message texts                                                           *)
(***************************************************************************)
C_start == <<"s", "t", "a", "r", "t">>
C_set_profile == <<"s", "e", "t", "_", "p", "r", "o", "f", "i", "l", "e">>
C_log_water == <<"l", "o", "g", "_", "w", "a", "t", "e", "r">>
C_log_food == <<"l", "o", "g", "_", "f", "o", "o", "d">>
C_log_workout == <<"l", "o", "g", "_", "w", "o", "r", "k", "o", "u", "t">>
C_check_progress == <<"c", "h", "e", "c", "k", "_", "p", "r", "o", "g", "r", "e", "s", "s">>

\* the literals prof_cal_goal takes for "no override": "нет", "no", "n"
L_net == <<"cy_n", "cy_e", "cy_t">>
L_no == <<"n", "o">>
L_n == <<"n">>

\* message.text of the updates the model sends; None is an update without text
T_80 == Some(<<"8", "0">>)
T_nan == Some(<<"n", "a", "n">>)
T_No == Some(<<"N", "o">>)
T_2500 == Some(<<"2", "5", "0", "0">>)
T_start == Some(<<"/", "s", "t", "a", "r", "t">>)
T_set_profile == Some(<<"/", "s", "e", "t", "_", "p", "r", "o", "f", "i", "l", "e">>)
T_log_water_250 == Some(<<"/", "l", "o", "g", "_", "w", "a", "t", "e", "r", " ", "2", "5", "0">>)
T_log_food_banan == Some(<<"/", "l", "o", "g", "_", "f", "o", "o", "d", " ", "b", "a", "n", "a", "n">>)
T_log_workout_beg_30 == Some(<<"/", "l", "o", "g", "_", "w", "o", "r", "k", "o", "u", "t", " ", "CY_B", "cy_e", "cy_g", " ", "3", "0">>)
T_check_progress == Some(<<"/", "c", "h", "e", "c", "k", "_", "p", "r", "o", "g", "r", "e", "s", "s">>)

Messages ==
    {None, T_80, T_nan, T_No, T_2500, T_start, T_set_profile, T_log_water_250,
     T_log_food_banan, T_log_workout_beg_30, T_check_progress}

\* a command text: "/" + command, then what follows it
Cmd(command, rest) == Some(<<"/">> \o command \o rest)

\* the water commands: 250, the largest amount 5000, the amounts 0 and 5001
\* out of range, "2.5" that is no integer, and no amount
WaterTexts ==
    {T_log_water_250,
     Cmd(C_log_water, <<" ", "5", "0", "0", "0">>),
     Cmd(C_log_water, <<" ", "0">>),
     Cmd(C_log_water, <<" ", "5", "0", "0", "1">>),
     Cmd(C_log_water, <<" ", "2", ".", "5">>),
     Cmd(C_log_water, <<>>)}

\* "/log_workout плавание 40" and "/log_workout dance 69" (an unlisted type)
T_log_workout_plavanie_40 == Cmd(C_log_workout, <<" ">> \o W_plavanie \o <<" ", "4", "0">>)
T_log_workout_dance_69 == Cmd(C_log_workout, <<" ", "d", "a", "n", "c", "e", " ", "6", "9">>)

\* the workout commands: those above, "бег 30", the minutes 0 and 601 out of
\* range, a type without minutes, and no arguments
WorkoutTexts ==
    {T_log_workout_beg_30, T_log_workout_plavanie_40, T_log_workout_dance_69,
     Cmd(C_log_workout, <<" ">> \o W_plavanie \o <<" ", "0">>),
     Cmd(C_log_workout, <<" ">> \o W_plavanie \o <<" ", "6", "0", "1">>),
     Cmd(C_log_workout, <<" ">> \o W_plavanie),
     Cmd(C_log_workout, <<>>)}

\* the updates of a user who logs water and workouts and checks the progress
LoggingTexts == WaterTexts \cup WorkoutTexts \cup {T_check_progress}

\* the food commands: "banan", and "egg bean", a description of two words
FoodTexts ==
    {T_log_food_banan,
     Cmd(C_log_food, <<" ", "e", "g", "g", " ", "b", "e", "a", "n">>)}

\* every text of the model
Texts == Messages \cup LoggingTexts \cup FoodTexts

(***************************************************************************)
(* The dispatcher: Command filters, state filters, registration order      *)
(***************************************************************************)
\* index of the first "@" of s, Len(s) + 1 when it has none
RECURSIVE AtSign(_, _)
AtSign(s, i) == IF i > Len(s) \/ s[i] = "@" THEN i ELSE AtSign(s, i + 1)

\* Command.parse_command: text.split(maxsplit=1), then prefix and command;
\* None when the text is no command, else Some([command, args]) with args
\* None when nothing follows the command
ParseCommand(text) ==
    IF IsNone(text) \/ LStrip(Get(text)) = <<>> THEN None
    ELSE LET r == LStrip(Get(text))
             k == FirstBlank(r, 1)
             full == SubSeq(r, 1, k - 1)
             rest == LStrip(SubSeq(r, k, Len(r)))
             name == SubSeq(full, 2, AtSign(full, 1) - 1)
         IN  IF Head(full) # "/" \/ AtSign(full, 1) <= Len(full) THEN None
             ELSE Some([command |-> name, args |-> IF rest = <<>> THEN None ELSE Some(rest)])

\* Command(name) accepts the message
IsCommand(text, name) == ~IsNone(ParseCommand(text)) /\ Get(ParseCommand(text)).command = name

\* command.args of an accepted message
ArgsOf(text) == Get(ParseCommand(text)).args

\* the @dp.message registrations, in source order
Handlers ==
    << [name |-> "start", command |-> Some(C_start), state |-> None],
       [name |-> "set_profile", command |-> Some(C_set_profile), state |-> None],
       [name |-> "prof_weight", command |-> None, state |-> Some("ProfileFSM:weight")],
       [name |-> "prof_height", command |-> None, state |-> Some("ProfileFSM:height")],
       [name |-> "prof_age", command |-> None, state |-> Some("ProfileFSM:age")],
       [name |-> "prof_activity", command |-> None, state |-> Some("ProfileFSM:activity")],
       [name |-> "prof_city", command |-> None, state |-> Some("ProfileFSM:city")],
       [name |-> "prof_cal_goal", command |-> None, state |-> Some("ProfileFSM:cal_goal")],
       [name |-> "log_water", command |-> Some(C_log_water), state |-> None],
       [name |-> "log_food", command |-> Some(C_log_food), state |-> None],
       [name |-> "food_manual_kcal", command |-> None, state |-> Some("FoodFSM:manual_kcal_100g")],
       [name |-> "food_grams", command |-> None, state |-> Some("FoodFSM:grams")],
       [name |-> "log_workout", command |-> Some(C_log_workout), state |-> None],
       [name |-> "check_progress", command |-> Some(C_check_progress), state |-> None] >>

\* the filters of one registration accept the update
Accepts(h, st, text) ==
    /\ IsNone(h.command) \/ IsCommand(text, Get(h.command))
    /\ IsNone(h.state) \/ st = h.state

\* the first registration whose filters accept the update, "unhandled" when none does
RECURSIVE FirstAccepting(_, _, _)
FirstAccepting(hs, st, text) ==
    IF hs = <<>> THEN "unhandled"
    ELSE IF Accepts(Head(hs), st, text) THEN Head(hs).name
    ELSE FirstAccepting(Tail(hs), st, text)

Dispatch(st, text) == FirstAccepting(Handlers, st, text)

(***************************************************************************)
(* FSMContext                                                              *)
(***************************************************************************)
NoData == [k \in {} |-> 0]

\* state.update_data(key=value)
update_data(data, key, value) == (key :> value) @@ data

S_weight == Some("ProfileFSM:weight")
S_height == Some("ProfileFSM:height")
S_age == Some("ProfileFSM:age")
S_activity == Some("ProfileFSM:activity")
S_city == Some("ProfileFSM:city")
S_cal_goal == Some("ProfileFSM:cal_goal")
S_manual_kcal_100g == Some("FoodFSM:manual_kcal_100g")
S_grams == Some("FoodFSM:grams")

(***************************************************************************)
(* Input validation of the handlers: None where the handler re-prompts     *)
(***************************************************************************)
\* float(message.text.replace(",", ".")); a message without text raises too
FloatOfText(text) == IF IsNone(text) THEN None ELSE ParseFloat(ReplaceComma(Get(text)))

\* int(message.text)
IntOfText(text) == IF IsNone(text) THEN None ELSE ParseInt(Get(text))

\* prof_weight: w <= 0 or w > 400 raises
WeightOf(text) ==
    LET w == FloatOfText(text)
    IN  IF IsNone(w) \/ FLe(Get(w), 0) \/ FGt(Get(w), 4000) THEN None ELSE w

\* prof_height: h <= 0 or h > 260 raises
HeightOf(text) ==
    LET h == FloatOfText(text)
    IN  IF IsNone(h) \/ FLe(Get(h), 0) \/ FGt(Get(h), 2600) THEN None ELSE h

\* prof_age: a <= 0 or a > 120 raises
AgeOf(text) ==
    LET a == IntOfText(text)
    IN  IF IsNone(a) \/ Get(a) <= 0 \/ Get(a) > 120 THEN None ELSE a

\* prof_activity: m < 0 or m > 600 raises
ActivityOf(text) ==
    LET m == IntOfText(text)
    IN  IF IsNone(m) \/ Get(m) < 0 \/ Get(m) > 600 THEN None ELSE m

\* prof_city: (message.text or "").strip(), empty re-prompts
CityOf(text) ==
    LET city == Strip(IF IsNone(text) THEN <<>> ELSE Get(text))
    IN  IF city = <<>> THEN None ELSE Some(city)

\* prof_cal_goal: Some(override) when accepted (override None for "no")
CalGoalOf(text) ==
    LET txt == Lower(Strip(IF IsNone(text) THEN <<>> ELSE Get(text)))
        v == ParseInt(txt)
    IN  IF txt \in {L_net, L_no, L_n} THEN Some(None)
        ELSE IF IsNone(v) \/ Get(v) < 800 \/ Get(v) > 6000 THEN None
        ELSE Some(v)

\* food_manual_kcal: kcal_100g < 0 or kcal_100g > 2000 raises
ManualKcalOf(text) ==
    LET k == FloatOfText(text)
    IN  IF IsNone(k) \/ FLt(Get(k), 0) \/ FGt(Get(k), 20000) THEN None ELSE k

\* food_grams: grams <= 0 or grams > 5000 raises
GramsOf(text) ==
    LET g == FloatOfText(text)
    IN  IF IsNone(g) \/ FLe(Get(g), 0) \/ FGt(Get(g), 50000) THEN None ELSE g

\* log_water: int(command.args.strip()), ml <= 0 or ml > 5000 raises
WaterOf(args) ==
    LET ml == ParseInt(Strip(args))
    IN  IF IsNone(ml) \/ Get(ml) <= 0 \/ Get(ml) > 5000 THEN None ELSE ml

\* log_workout: int(parts[-1]), minutes <= 0 or minutes > 600 raises
MinutesOf(parts) ==
    LET m == ParseInt(parts[Len(parts)])
    IN  IF IsNone(m) \/ Get(m) <= 0 \/ Get(m) > 600 THEN None ELSE m

\* kcal = kcal_100g * grams / 100.0, in 1/10000 kcal
KcalFor(kcal_100g, grams) ==
    IF kcal_100g.nan \/ grams.nan THEN NaN ELSE Num(kcal_100g.t * grams.t)

\* an int as a calorie amount, in 1/10000 kcal
Kcal(n) == Num(n * (10 * 10 * 100))

(***************************************************************************)
(* Provider responses of the model                                         *)
(***************************************************************************)
N_banan == <<"B", "a", "n", "a", "n">>
N_juice == <<"j", "u", "i", "c", "e">>

\* one entry of "products": product_name, generic_name and the two energy
\* values of its nutriments, each None when the key is missing
Product(name, kcal, kj) == [name |-> name, generic |-> None, kcal |-> kcal, kj |-> kj]

\* what the food request can come to: a failure (None), or a product list
FoodResponses ==
    {None,
     Some(<<>>),
     Some(<<Product(Some(N_juice), None, None), Product(Some(N_banan), Some(Num(890)), None)>>),
     Some(<<Product(Some(N_juice), Some(Num(-500)), None)>>)}

\* the longest product list of a search result
MaxProducts == 3

N_Egg_Bean_dot == <<"E", "g", "g", " ", "B", "e", "a", "n", ".">>
N_EGG_BEAN == <<"E", "G", "G", " ", "B", "E", "A", "N">>
N_bean_egg == <<"b", "e", "a", "n", "-", "e", "g", "g">>

\* products a search for "egg bean" can list: two that contain the whole
\* description, one that contains both words but not the description and has
\* its energy in kJ only (1046 kJ), "egg bean bag" that contains the
\* description and has no energy value, one known by its generic name "bean"
Shelf ==
    {Product(Some(N_Egg_Bean_dot), Some(Num(1500)), None),
     Product(Some(N_EGG_BEAN), Some(Num(900)), Some(Num(37660))),
     Product(Some(N_bean_egg), None, Some(Num(10460))),
     Product(Some(<<"e", "g", "g", " ", "b", "e", "a", "n", " ", "b", "a", "g">>), None, None),
     [Product(Some(<<>>), Some(Num(3000)), None)
         EXCEPT !.generic = Some(<<"b", "e", "a", "n">>)]}

\* the search results over the shelf, in every order
FoodMenus == {Some(ps) : ps \in UNION {[1..n -> Shelf] : n \in 0..MaxProducts}}

\* what the food request for `query` can come to
ResponsesTo(query) == IF _norm(query) = _norm(N_banan) THEN FoodResponses ELSE FoodMenus

(***************************************************************************)
(* The updates of the model, each text read once                           *)
(***************************************************************************)
SessionStates ==
    {None, S_weight, S_height, S_age, S_activity, S_city, S_cal_goal,
     S_manual_kcal_100g, S_grams}

\* Dispatch, tabulated over the session states and the texts of the model
Route == [st \in SessionStates |-> [text \in Texts |-> Dispatch(st, text)]]

\* what each handler reads from each text of the model
Read ==
    [text \in Texts |->
        [weight |-> WeightOf(text), height |-> HeightOf(text), age |-> AgeOf(text),
         activity |-> ActivityOf(text), city |-> CityOf(text),
         cal_goal |-> CalGoalOf(text), manual_kcal |-> ManualKcalOf(text),
         grams |-> GramsOf(text),
         args |-> IF IsNone(ParseCommand(text)) THEN None ELSE ArgsOf(text)]]

(***************************************************************************)
(* Handlers                                                                *)
(*                                                                         *)
(* Each handler is one step.  The handlers run as asyncio tasks on one     *)
(* thread, so they interleave only where a handler really suspends: the    *)
(* MemoryStorage calls (state.update_data, set_state, get_data, clear)     *)
(* never suspend, requests.get blocks the whole loop, and message.answer,  *)
(* which does suspend, is the last statement of every path of every        *)
(* handler.  All reads and writes of a handler therefore precede its only  *)
(* suspension point, and every interleaving of the tasks of different      *)
(* users is a sequence of whole handlers.                                  *)
(***************************************************************************)
Reply(tag) == [tag |-> tag, temp |-> None, nums |-> <<>>]

\* a handler that raised sends no answer
Raised == Reply("raised")

\* the update (user_id, text) reaches the handler `name`
Routed(user_id, text, name) ==
    /\ steps < MaxSteps
    /\ Route[fsm_state[user_id]][text] = name

Done(user_id, name, reply, calls) ==
    /\ last' = [uid |-> user_id, handler |-> name, reply |-> reply, calls |-> calls]
    /\ steps' = steps + 1

SetState(user_id, st) == fsm_state' = [fsm_state EXCEPT ![user_id] = st]

SetData(user_id, data) == fsm_data' = [fsm_data EXCEPT ![user_id] = data]

\* state.clear() as it would be if it reset the state and kept the data
Clear_keeping_data(user_id) == SetState(user_id, None) /\ UNCHANGED fsm_data

\* state.clear()
Clear(user_id) == SetState(user_id, None) /\ SetData(user_id, NoData)

start(u, text) ==
    /\ Routed(u, text, "start")
    /\ Done(u, "start", Reply("help"), <<>>)
    /\ UNCHANGED <<users, fsm_state, fsm_data, today, owm_key>>

\* set_profile as it would be if it also reset the user's registry entry
set_profile_resetting_user(u, text) ==
    /\ Routed(u, text, "set_profile")
    /\ users' = [users EXCEPT ![u] = Some([profile |-> None, days |-> NoDays])]
    /\ SetData(u, NoData)
    /\ SetState(u, S_weight)
    /\ Done(u, "set_profile", Reply("ask_weight"), <<>>)
    /\ UNCHANGED <<today, owm_key>>

set_profile(u, text) ==
    /\ Routed(u, text, "set_profile")
    /\ SetData(u, NoData)
    /\ SetState(u, S_weight)
    /\ Done(u, "set_profile", Reply("ask_weight"), <<>>)
    /\ UNCHANGED <<users, today, owm_key>>

prof_weight(u, text) ==
    /\ Routed(u, text, "prof_weight")
    /\ LET w == Read[text].weight
       IN  IF IsNone(w)
           THEN /\ Done(u, "prof_weight", Reply("bad_weight"), <<>>)
                /\ UNCHANGED <<fsm_state, fsm_data>>
           ELSE /\ SetData(u, update_data(fsm_data[u], "weight", Get(w)))
                /\ SetState(u, S_height)
                /\ Done(u, "prof_weight", Reply("ask_height"), <<>>)
    /\ UNCHANGED <<users, today, owm_key>>

prof_height(u, text) ==
    /\ Routed(u, text, "prof_height")
    /\ LET h == Read[text].height
       IN  IF IsNone(h)
           THEN /\ Done(u, "prof_height", Reply("bad_height"), <<>>)
                /\ UNCHANGED <<fsm_state, fsm_data>>
           ELSE /\ SetData(u, update_data(fsm_data[u], "height", Get(h)))
                /\ SetState(u, S_age)
                /\ Done(u, "prof_height", Reply("ask_age"), <<>>)
    /\ UNCHANGED <<users, today, owm_key>>

prof_age(u, text) ==
    /\ Routed(u, text, "prof_age")
    /\ LET a == Read[text].age
       IN  IF IsNone(a)
           THEN /\ Done(u, "prof_age", Reply("bad_age"), <<>>)
                /\ UNCHANGED <<fsm_state, fsm_data>>
           ELSE /\ SetData(u, update_data(fsm_data[u], "age", Get(a)))
                /\ SetState(u, S_activity)
                /\ Done(u, "prof_age", Reply("ask_activity"), <<>>)
    /\ UNCHANGED <<users, today, owm_key>>

prof_activity(u, text) ==
    /\ Routed(u, text, "prof_activity")
    /\ LET m == Read[text].activity
       IN  IF IsNone(m)
           THEN /\ Done(u, "prof_activity", Reply("bad_activity"), <<>>)
                /\ UNCHANGED <<fsm_state, fsm_data>>
           ELSE /\ SetData(u, update_data(fsm_data[u], "activity_min", Get(m)))
                /\ SetState(u, S_city)
                /\ Done(u, "prof_activity", Reply("ask_city"), <<>>)
    /\ UNCHANGED <<users, today, owm_key>>

prof_city(u, text) ==
    /\ Routed(u, text, "prof_city")
    /\ LET city == Read[text].city
       IN  IF IsNone(city)
           THEN /\ Done(u, "prof_city", Reply("bad_city"), <<>>)
                /\ UNCHANGED <<fsm_state, fsm_data>>
           ELSE /\ SetData(u, update_data(fsm_data[u], "city", Get(city)))
                /\ SetState(u, S_cal_goal)
                /\ Done(u, "prof_city", Reply("ask_cal_goal"), <<>>)
    /\ UNCHANGED <<users, today, owm_key>>

\* the profile prof_cal_goal assembles from the session's data
ProfileFrom(data, override) ==
    [weight |-> data.weight, height |-> data.height, age |-> data.age,
     activity_min |-> data.activity_min, city |-> data.city,
     calorie_goal_override |-> override]

\* prof_cal_goal from calc_water_goal_ml on: a goal that raises leaves the
\* session as it is and sends nothing
ReportProfile(u, temp, water_goal, cal_goal) ==
    IF IsNone(water_goal) \/ IsNone(cal_goal)
    THEN /\ Done(u, "prof_cal_goal", Raised, TempCalls(owm_key))
         /\ UNCHANGED <<fsm_state, fsm_data>>
    ELSE /\ Clear(u)
         /\ Done(u, "prof_cal_goal",
                 [tag |-> "profile_saved", temp |-> temp,
                  nums |-> <<Get(water_goal), Get(cal_goal)>>],
                 TempCalls(owm_key))

\* prof_cal_goal once the input is accepted: install, ensure today's ledger, report
InstallProfile(u, profile, us, temp) ==
    /\ users' = us
    /\ ReportProfile(u, temp,
                     calc_water_goal_ml(profile, temp,
                                        DayOf(us, u, today_key(today)).workout_extra_water_ml),
                     calc_calorie_goal(profile))

prof_cal_goal(u, text) ==
    /\ Routed(u, text, "prof_cal_goal")
    /\ IF IsNone(Read[text].cal_goal)
       THEN /\ Done(u, "prof_cal_goal", Reply("bad_cal_goal"), <<>>)
            /\ UNCHANGED <<users, fsm_state, fsm_data>>
       ELSE \E outcome \in WeatherOutcomes :
                InstallProfile(u, ProfileFrom(fsm_data[u], Get(Read[text].cal_goal)),
                               ensure_day(PutProfile(ensure_user(users, u), u,
                                                     ProfileFrom(fsm_data[u], Get(Read[text].cal_goal))),
                                          u, today_key(today)),
                               get_temp_c(owm_key, fsm_data[u].city, outcome))
    /\ UNCHANGED <<today, owm_key>>

\* the remaining amount as it would be without max(0, ...)
Left_unclamped(water_goal, water_ml) == water_goal - water_ml

\* max(0, water_goal - water_ml)
Left(water_goal, water_ml) == IF water_goal - water_ml > 0 THEN water_goal - water_ml ELSE 0

\* log_water from calc_water_goal_ml on, d being today's ledger after the addition
ReportWater(u, d, water_goal) ==
    IF IsNone(water_goal)
    THEN Done(u, "log_water", Raised, TempCalls(owm_key))
    ELSE Done(u, "log_water",
              [tag |-> "water_logged", temp |-> None,
               nums |-> <<d.water_ml, Get(water_goal), Left(Get(water_goal), d.water_ml)>>],
              TempCalls(owm_key))

\* log_water once the amount is accepted: us is the registry after ensure_day
AddWater(u, profile, us, day, ml, temp) ==
    /\ users' = PutDay(us, u, day, [DayOf(us, u, day) EXCEPT !.water_ml = @ + ml])
    /\ ReportWater(u, [DayOf(us, u, day) EXCEPT !.water_ml = @ + ml],
                   calc_water_goal_ml(profile, temp, DayOf(us, u, day).workout_extra_water_ml))

log_water(u, text) ==
    /\ Routed(u, text, "log_water")
    /\ IF IsNone(profile_of(users, u))
       THEN /\ users' = ensure_user(users, u)
            /\ Done(u, "log_water", Reply("need_profile"), <<>>)
       ELSE IF IsNone(Read[text].args)
       THEN /\ users' = ensure_user(users, u)
            /\ Done(u, "log_water", Reply("water_format"), <<>>)
       ELSE IF IsNone(WaterOf(Get(Read[text].args)))
       THEN /\ users' = ensure_user(users, u)
            /\ Done(u, "log_water", Reply("bad_water"), <<>>)
       ELSE \E outcome \in WeatherOutcomes :
                AddWater(u, Get(profile_of(users, u)),
                         ensure_day(ensure_user(users, u), u, today_key(today)),
                         today_key(today), Get(WaterOf(Get(Read[text].args))),
                         get_temp_c(owm_key, Get(profile_of(users, u)).city, outcome))
    /\ UNCHANGED <<fsm_state, fsm_data, today, owm_key>>

\* the food request of log_food: its search terms and what the provider answered
Asked(u, tag, query, response) ==
    /\ last' = [uid |-> u, handler |-> "log_food", reply |-> Reply(tag),
                calls |-> <<"food">>, asked |-> query, got |-> response]
    /\ steps' = steps + 1

\* log_food from state.clear() on, info being what get_food_kcal_100g returned
\* for the provider response `response`
StartFood(u, query, response, info) ==
    IF IsNone(info)
    THEN /\ SetData(u, update_data(NoData, "food_name", query))
         /\ SetState(u, S_manual_kcal_100g)
         /\ Asked(u, "ask_manual_kcal", query, response)
    ELSE /\ SetData(u, update_data(update_data(NoData, "food_name", Get(info).name),
                                   "kcal_100g", Get(info).kcal_100g))
         /\ SetState(u, S_grams)
         /\ Asked(u, "ask_grams", query, response)

\* log_food as it would be without the profile check
log_food_without_profile_check(u, text) ==
    /\ Routed(u, text, "log_food")
    /\ users' = ensure_user(users, u)
    /\ IF IsNone(Read[text].args)
       THEN /\ Done(u, "log_food", Reply("food_format"), <<>>)
            /\ UNCHANGED <<fsm_state, fsm_data>>
       ELSE \E response \in ResponsesTo(Strip(Get(Read[text].args))) :
                StartFood(u, Strip(Get(Read[text].args)), response,
                          get_food_kcal_100g(Strip(Get(Read[text].args)), response))
    /\ UNCHANGED <<today, owm_key>>

log_food(u, text) ==
    /\ Routed(u, text, "log_food")
    /\ users' = ensure_user(users, u)
    /\ IF IsNone(profile_of(users, u))
       THEN /\ Done(u, "log_food", Reply("need_profile"), <<>>)
            /\ UNCHANGED <<fsm_state, fsm_data>>
       ELSE IF IsNone(Read[text].args)
       THEN /\ Done(u, "log_food", Reply("food_format"), <<>>)
            /\ UNCHANGED <<fsm_state, fsm_data>>
       ELSE \E response \in ResponsesTo(Strip(Get(Read[text].args))) :
                StartFood(u, Strip(Get(Read[text].args)), response,
                          get_food_kcal_100g(Strip(Get(Read[text].args)), response))
    /\ UNCHANGED <<today, owm_key>>

food_manual_kcal(u, text) ==
    /\ Routed(u, text, "food_manual_kcal")
    /\ LET k == Read[text].manual_kcal
       IN  IF IsNone(k)
           THEN /\ Done(u, "food_manual_kcal", Reply("bad_manual_kcal"), <<>>)
                /\ UNCHANGED <<fsm_state, fsm_data>>
           ELSE /\ SetData(u, update_data(fsm_data[u], "kcal_100g", Get(k)))
                /\ SetState(u, S_grams)
                /\ Done(u, "food_manual_kcal", Reply("ask_grams"), <<>>)
    /\ UNCHANGED <<users, today, owm_key>>

\* food_grams once the quantity is accepted: us is the registry after ensure_day
AddFood(u, us, day, name, grams, kcal) ==
    /\ users' = PutDay(us, u, day,
                       [DayOf(us, u, day) EXCEPT !.cal_in = FAdd(@, kcal),
                                                 !.foods = Append(@, <<name, grams, kcal>>)])
    /\ Clear(u)
    /\ Done(u, "food_grams", Reply("food_logged"), <<>>)

food_grams(u, text) ==
    /\ Routed(u, text, "food_grams")
    /\ IF IsNone(profile_of(users, u))
       THEN /\ users' = ensure_user(users, u)
            /\ Clear(u)
            /\ Done(u, "food_grams", Reply("need_profile"), <<>>)
       ELSE IF IsNone(Read[text].grams)
       THEN /\ users' = ensure_user(users, u)
            /\ Done(u, "food_grams", Reply("bad_grams"), <<>>)
            /\ UNCHANGED <<fsm_state, fsm_data>>
       ELSE AddFood(u, ensure_day(ensure_user(users, u), u, today_key(today)),
                    today_key(today), fsm_data[u].food_name, Get(Read[text].grams),
                    KcalFor(fsm_data[u].kcal_100g, Get(Read[text].grams)))
    /\ UNCHANGED <<today, owm_key>>

\* log_workout once burned is computed: us is the registry after ensure_day
AddWorkout(u, us, day, workout_type, minutes, burned, extra_water) ==
    /\ users' = PutDay(us, u, day,
                       [DayOf(us, u, day) EXCEPT
                            !.cal_out = FAdd(@, Kcal(burned)),
                            !.workout_extra_water_ml = @ + extra_water,
                            !.workouts = Append(@, <<workout_type, minutes, burned>>)])
    /\ Done(u, "log_workout",
            [tag |-> "workout_logged", temp |-> None,
             nums |-> <<minutes, burned, extra_water>>], <<>>)

\* log_workout once the minutes are accepted
BurnWorkout(u, workout_type, minutes, burned) ==
    IF IsNone(burned)
    THEN /\ users' = ensure_user(users, u)
         /\ Done(u, "log_workout", Raised, <<>>)
    ELSE AddWorkout(u, ensure_day(ensure_user(users, u), u, today_key(today)),
                    today_key(today), workout_type, minutes, Get(burned),
                    ExtraWater(minutes))

\* log_workout from command.args.split() on
ParseWorkout(u, profile, parts) ==
    IF Len(parts) < 2
    THEN /\ users' = ensure_user(users, u)
         /\ Done(u, "log_workout", Reply("workout_format2"), <<>>)
    ELSE IF IsNone(MinutesOf(parts))
    THEN /\ users' = ensure_user(users, u)
         /\ Done(u, "log_workout", Reply("bad_minutes"), <<>>)
    ELSE BurnWorkout(u, Strip(Join(SubSeq(parts, 1, Len(parts) - 1))),
                     Get(MinutesOf(parts)),
                     calc_burned_kcal(Strip(Join(SubSeq(parts, 1, Len(parts) - 1))),
                                      Get(MinutesOf(parts)), profile.weight))

log_workout(u, text) ==
    /\ Routed(u, text, "log_workout")
    /\ IF IsNone(profile_of(users, u))
       THEN /\ users' = ensure_user(users, u)
            /\ Done(u, "log_workout", Reply("need_profile"), <<>>)
       ELSE IF IsNone(Read[text].args)
       THEN /\ users' = ensure_user(users, u)
            /\ Done(u, "log_workout", Reply("workout_format"), <<>>)
       ELSE ParseWorkout(u, Get(profile_of(users, u)), Split(Get(Read[text].args)))
    /\ UNCHANGED <<fsm_state, fsm_data, today, owm_key>>

\* check_progress from calc_water_goal_ml on, d being today's ledger
ReportProgress(u, d, temp, water_goal, cal_goal) ==
    IF IsNone(water_goal) \/ IsNone(cal_goal)
    THEN Done(u, "check_progress", Raised, TempCalls(owm_key))
    ELSE Done(u, "check_progress",
              [tag |-> "progress", temp |-> temp,
               nums |-> <<d.water_ml, Get(water_goal), Left(Get(water_goal), d.water_ml),
                          Get(cal_goal)>>,
               kcal |-> <<d.cal_in, d.cal_out>>],
              TempCalls(owm_key))

\* check_progress with a profile: us is the registry after ensure_day
Progress(u, profile, us, d, temp) ==
    /\ users' = us
    /\ ReportProgress(u, d, temp,
                      calc_water_goal_ml(profile, temp, d.workout_extra_water_ml),
                      calc_calorie_goal(profile))

check_progress(u, text) ==
    /\ Routed(u, text, "check_progress")
    /\ IF IsNone(profile_of(users, u))
       THEN /\ users' = ensure_user(users, u)
            /\ Done(u, "check_progress", Reply("need_profile"), <<>>)
       ELSE \E outcome \in WeatherOutcomes :
                Progress(u, Get(profile_of(users, u)),
                         ensure_day(ensure_user(users, u), u, today_key(today)),
                         DayOf(ensure_day(ensure_user(users, u), u, today_key(today)), u,
                               today_key(today)),
                         get_temp_c(owm_key, Get(profile_of(users, u)).city, outcome))
    /\ UNCHANGED <<fsm_state, fsm_data, today, owm_key>>

\* no registration accepts the update: the dispatcher drops it
unhandled(u, text) ==
    /\ Routed(u, text, "unhandled")
    /\ Done(u, "unhandled", Reply("none"), <<>>)
    /\ UNCHANGED <<users, fsm_state, fsm_data, today, owm_key>>

\* the calendar date of the process changes
NewDay ==
    /\ steps < MaxSteps
    /\ today < MaxDay
    /\ today' = today + 1
    /\ steps' = steps + 1
    /\ UNCHANGED <<users, fsm_state, fsm_data, owm_key, last>>

\* the process after start-up, OWM_API_KEY being set or not
Started(key) ==
    /\ users = [u \in Users |-> None]
    /\ fsm_state = [u \in Users |-> None]
    /\ fsm_data = [u \in Users |-> NoData]
    /\ today = 1
    /\ owm_key = key
    /\ last = [uid |-> 0, handler |-> "none", reply |-> Reply("none"), calls |-> <<>>]
    /\ steps = 0

Init == Started(TRUE)

InitNoKey == Started(FALSE)

Next ==
    \/ \E u \in Users, text \in Messages : start(u, text)
    \/ \E u \in Users, text \in Messages : set_profile(u, text)
    \/ \E u \in Users, text \in Messages : prof_weight(u, text)
    \/ \E u \in Users, text \in Messages : prof_height(u, text)
    \/ \E u \in Users, text \in Messages : prof_age(u, text)
    \/ \E u \in Users, text \in Messages : prof_activity(u, text)
    \/ \E u \in Users, text \in Messages : prof_city(u, text)
    \/ \E u \in Users, text \in Messages : prof_cal_goal(u, text)
    \/ \E u \in Users, text \in Messages : log_water(u, text)
    \/ \E u \in Users, text \in Messages : log_food(u, text)
    \/ \E u \in Users, text \in Messages : food_manual_kcal(u, text)
    \/ \E u \in Users, text \in Messages : food_grams(u, text)
    \/ \E u \in Users, text \in Messages : log_workout(u, text)
    \/ \E u \in Users, text \in Messages : check_progress(u, text)
    \/ \E u \in Users, text \in Messages : unhandled(u, text)
    \/ NewDay

Spec == Init /\ [][Next]_vars

\* the same process started without OWM_API_KEY
SpecNoKey == InitNoKey /\ [][Next]_vars

\* a profile as the profile flow installs it from the texts "80", "184",
\* "26", "45", "X", "no"
P_onboarded ==
    [weight |-> Num(800), height |-> Num(1840), age |-> 26, activity_min |-> 45,
     city |-> <<"X">>, calorie_goal_override |-> None]

\* the process after user 1 has gone through the profile flow on the first
\* day (seven updates, /set_profile to the calorie goal), the weather request
\* of the last step having failed
InitLogging ==
    /\ users = [u \in Users |->
                  IF u = 1 THEN Some([profile |-> Some(P_onboarded), days |-> (1 :> NewLedger)])
                  ELSE None]
    /\ fsm_state = [u \in Users |-> None]
    /\ fsm_data = [u \in Users |-> NoData]
    /\ today = 1
    /\ owm_key = TRUE
    /\ last = [uid |-> 1, handler |-> "prof_cal_goal",
               reply |-> [tag |-> "profile_saved", temp |-> None,
                          nums |-> <<Get(calc_water_goal_ml(P_onboarded, None, 0)),
                                     Get(calc_calorie_goal(P_onboarded))>>],
               calls |-> TempCalls(TRUE)]
    /\ steps = 7

\* from there on the users log water and workouts and check the progress
NextLogging ==
    \/ \E u \in Users, text \in LoggingTexts : log_water(u, text)
    \/ \E u \in Users, text \in LoggingTexts : log_workout(u, text)
    \/ \E u \in Users, text \in LoggingTexts : check_progress(u, text)
    \/ NewDay

SpecLogging == InitLogging /\ [][NextLogging]_vars

\* valid profiles, as the profile flow installs them: weights 0.1 .. 400 kg
\* (4.1 * 30 falls under 123 in floats), heights 0.1 .. 260 cm, ages
\* 26 and 120, activity 0 .. 600 minutes, with and without override
ProfileGrid ==
    {[weight |-> Num(w), height |-> Num(h), age |-> a, activity_min |-> m,
      city |-> <<"X">>, calorie_goal_override |-> o] :
        w \in {1, 41, 800, 4000}, h \in {1, 1840, 2600}, a \in {26, 120},
        m \in {0, 45, 69, 600}, o \in {None, Some(800), Some(2200), Some(6000)}}

\* the process after user 1 has installed one of these profiles on the
\* first day, the weather request of the last step having failed
InitGoals ==
    \E p \in ProfileGrid :
        /\ users = [u \in Users |->
                      IF u = 1 THEN Some([profile |-> Some(p), days |-> (1 :> NewLedger)])
                      ELSE None]
        /\ fsm_state = [u \in Users |-> None]
        /\ fsm_data = [u \in Users |-> NoData]
        /\ today = 1
        /\ owm_key = TRUE
        /\ last = [uid |-> 1, handler |-> "prof_cal_goal",
                   reply |-> [tag |-> "profile_saved", temp |-> None,
                              nums |-> <<Get(calc_water_goal_ml(p, None, 0)),
                                         Get(calc_calorie_goal(p))>>],
                   calls |-> TempCalls(TRUE)]
        /\ steps = 7

\* from there on user 1 logs workouts and the users check the progress
NextGoals ==
    \/ \E text \in {T_log_workout_plavanie_40, T_log_workout_dance_69} : log_workout(1, text)
    \/ \E u \in Users : check_progress(u, T_check_progress)

SpecGoals == InitGoals /\ [][NextGoals]_vars

\* profiles that differ in weight (4.0, 4.1, 80, 400 kg) and activity
\* (0, 45, 600 minutes) only
WaterGrid ==
    {[P_onboarded EXCEPT !.weight = Num(w), !.activity_min = m] :
        w \in {40, 41, 800, 4000}, m \in {0, 45, 600}}

\* the process after both users have installed such a profile on the first
\* day, user 2 last and without a temperature; the counter leaves as many
\* updates to go as in InitLogging
InitWater ==
    \E p1 \in WaterGrid, p2 \in WaterGrid :
        /\ users = [u \in Users |->
                      Some([profile |-> Some(IF u = 1 THEN p1 ELSE p2),
                            days |-> (1 :> NewLedger)])]
        /\ fsm_state = [u \in Users |-> None]
        /\ fsm_data = [u \in Users |-> NoData]
        /\ today = 1
        /\ owm_key = TRUE
        /\ last = [uid |-> 2, handler |-> "prof_cal_goal",
                   reply |-> [tag |-> "profile_saved", temp |-> None,
                              nums |-> <<Get(calc_water_goal_ml(p2, None, 0)),
                                         Get(calc_calorie_goal(p2))>>],
                   calls |-> TempCalls(TRUE)]
        /\ steps = 7

\* from there on the users log a swim and check the progress
NextWater ==
    \/ \E u \in Users : log_workout(u, T_log_workout_plavanie_40)
    \/ \E u \in Users : check_progress(u, T_check_progress)

SpecWater == InitWater /\ [][NextWater]_vars

\* an onboarded user with one update to go, who describes a food
InitFood ==
    /\ users = [u \in Users |->
                  IF u = 1 THEN Some([profile |-> Some(P_onboarded), days |-> (1 :> NewLedger)])
                  ELSE None]
    /\ fsm_state = [u \in Users |-> None]
    /\ fsm_data = [u \in Users |-> NoData]
    /\ today = 1
    /\ owm_key = TRUE
    /\ last = [uid |-> 1, handler |-> "prof_cal_goal",
               reply |-> [tag |-> "profile_saved", temp |-> None,
                          nums |-> <<Get(calc_water_goal_ml(P_onboarded, None, 0)),
                                     Get(calc_calorie_goal(P_onboarded))>>],
               calls |-> TempCalls(TRUE)]
    /\ steps = MaxSteps - 1

NextFood == \E u \in Users, text \in FoodTexts : log_food(u, text)

SpecFood == InitFood /\ [][NextFood]_vars

(***************************************************************************)
(* Vocabulary of the properties                                            *)
(***************************************************************************)
\* the update (u, text) is handled in this step, by whichever handler takes it
Update(u, text) ==
    \/ start(u, text) \/ set_profile(u, text)
    \/ prof_weight(u, text) \/ prof_height(u, text) \/ prof_age(u, text)
    \/ prof_activity(u, text) \/ prof_city(u, text) \/ prof_cal_goal(u, text)
    \/ log_water(u, text) \/ log_food(u, text)
    \/ food_manual_kcal(u, text) \/ food_grams(u, text)
    \/ log_workout(u, text) \/ check_progress(u, text) \/ unhandled(u, text)

\* the same, told first by what the step leaves in `last`
Handles(u, text) ==
    /\ last'.uid = u
    /\ last'.handler = Route[fsm_state[u]][text]
    /\ steps' = steps + 1
    /\ Update(u, text)

\* the installed profile of a user, None when there is none
ProfileOf(u) == IF IsNone(users[u]) THEN None ELSE Get(users[u]).profile

\* the ledgers of a user, by day
LedgersOf(u) == IF IsNone(users[u]) THEN NoDays ELSE Get(users[u]).days

\* today's ledger of a user as the handlers see it (a fresh one when absent)
TodayOf(u) == IF today \in DOMAIN LedgersOf(u) THEN LedgersOf(u)[today] ELSE NewLedger

HasSession(u) == ~IsNone(fsm_state[u])

ProfileStates == {S_weight, S_height, S_age, S_activity, S_city, S_cal_goal}

FoodStates == {S_manual_kcal_100g, S_grams}

\* the handler registered for a session state
HandlerOf(st) ==
    CASE st = S_weight -> "prof_weight" [] st = S_height -> "prof_height"
      [] st = S_age -> "prof_age" [] st = S_activity -> "prof_activity"
      [] st = S_city -> "prof_city" [] st = S_cal_goal -> "prof_cal_goal"
      [] st = S_manual_kcal_100g -> "food_manual_kcal" [] st = S_grams -> "food_grams"
      [] OTHER -> "none"

\* the flow-initiating commands: /set_profile, and /log_food with a query
\* from a user who has a profile
StartsProfileFlow(text) == IsCommand(text, C_set_profile)

StartsFoodFlow(u, text) ==
    /\ IsCommand(text, C_log_food)
    /\ ~IsNone(ArgsOf(text))
    /\ ~IsNone(ProfileOf(u))

\* a text is a real number within (lo, hi] resp. [lo, hi], in tenths
RealIn(text, lo, hi) ==
    /\ ~IsNone(FloatOfText(text))
    /\ ~Get(FloatOfText(text)).nan
    /\ lo <= Get(FloatOfText(text)).t
    /\ Get(FloatOfText(text)).t <= hi

IntIn(text, lo, hi) ==
    /\ ~IsNone(IntOfText(text))
    /\ lo <= Get(IntOfText(text))
    /\ Get(IntOfText(text)) <= hi

\* the text is the literal "no" (any case) of the calorie_goal_override state
SaysNo(text) == ~IsNone(text) /\ Lower(Strip(Get(text))) \in {L_net, L_no, L_n}

\* validity of a text for a profile state, by the ranges of the data model
ValidFor(st, text) ==
    CASE st = S_weight -> RealIn(text, 1, 4000)
      [] st = S_height -> RealIn(text, 1, 2600)
      [] st = S_age -> IntIn(text, 1, 120)
      [] st = S_activity -> IntIn(text, 0, 600)
      [] st = S_city -> ~IsNone(text) /\ Strip(Get(text)) # <<>>
      [] st = S_cal_goal -> SaysNo(text) \/ IntIn(text, 800, 6000)

\* the field a profile state collects, and the state that follows it
FieldOf(st) ==
    CASE st = S_weight -> "weight" [] st = S_height -> "height" [] st = S_age -> "age"
      [] st = S_activity -> "activity_min" [] st = S_city -> "city"

NextOf(st) ==
    CASE st = S_weight -> S_height [] st = S_height -> S_age [] st = S_age -> S_activity
      [] st = S_activity -> S_city [] st = S_city -> S_cal_goal [] st = S_cal_goal -> None

\* the value a valid text gives a profile state's field
ValueOf(st, text) ==
    CASE st \in {S_weight, S_height} -> Get(FloatOfText(text))
      [] st \in {S_age, S_activity} -> Get(IntOfText(text))
      [] st = S_city -> Strip(Get(text))

SessionUnchanged(u) == fsm_state'[u] = fsm_state[u] /\ fsm_data'[u] = fsm_data[u]

(***************************************************************************)
(* Properties                                                              *)
(***************************************************************************)
\* C1: while a session is active for a user, a message that is not
\* flow-initiating is handled by the session's current state only: the
\* help, water, workout and progress commands are not dispatched, the
\* user's ledgers change only in the grams step, and the session changes
\* only by the state's own handler.
C1_SessionConsumesEveryMessage ==
    [][\A u \in Users, text \in Messages :
          (/\ HasSession(u)
           /\ Handles(u, text)
           /\ ~StartsProfileFlow(text)
           /\ ~StartsFoodFlow(u, text))
          => /\ last'.handler = HandlerOf(fsm_state[u])
             /\ (LedgersOf(u)' # LedgersOf(u) => fsm_state[u] = S_grams)]_vars

\* C2: a flow-initiating command received in any session state of either
\* flow (or in none) creates a new session of the requested flow and
\* discards the fields collected by the previous one.
C2_FlowStartSupersedes ==
    [][\A u \in Users, text \in Messages :
          /\ (Handles(u, text) /\ StartsProfileFlow(text))
                => fsm_state'[u] = S_weight /\ fsm_data'[u] = NoData
          /\ (Handles(u, text) /\ StartsFoodFlow(u, text))
                => /\ fsm_state'[u] \in FoodStates
                   /\ DOMAIN fsm_data'[u] \subseteq {"food_name", "kcal_100g"}
                   /\ last'.handler = "log_food"]_vars

\* C3: in a profile state, a valid message stores exactly that state's
\* field and moves to the state that follows (the last one ends the
\* session); an invalid message leaves state and fields unchanged.
C3_ProfileFlowOrder ==
    [][\A u \in Users, text \in Messages :
          (/\ fsm_state[u] \in ProfileStates
           /\ Route[fsm_state[u]][text] = HandlerOf(fsm_state[u])
           /\ Handles(u, text))
          => IF ValidFor(fsm_state[u], text)
             THEN /\ fsm_state'[u] = NextOf(fsm_state[u])
                  /\ fsm_state[u] # S_cal_goal
                        => fsm_data'[u] = update_data(fsm_data[u], FieldOf(fsm_state[u]),
                                                      ValueOf(fsm_state[u], text))
             ELSE SessionUnchanged(u)]_vars

\* C4: when the calorie_goal_override state accepts its input, the profile
\* is the one assembled from the session's fields, today's ledger exists
\* and the user has no session; when it rejects it, profile, ledgers and
\* session are unchanged.
C4_TerminalStep ==
    [][\A u \in Users, text \in Messages :
          (/\ fsm_state[u] = S_cal_goal
           /\ Route[S_cal_goal][text] = "prof_cal_goal"
           /\ Handles(u, text))
          => IF ValidFor(S_cal_goal, text)
             THEN /\ ProfileOf(u)' =
                        Some(ProfileFrom(fsm_data[u],
                                         IF SaysNo(text) THEN None ELSE IntOfText(text)))
                  /\ today \in DOMAIN LedgersOf(u)'
                  /\ fsm_state'[u] = None
                  /\ fsm_data'[u] = NoData
             ELSE /\ ProfileOf(u)' = ProfileOf(u)
                  /\ LedgersOf(u)' = LedgersOf(u)
                  /\ SessionUnchanged(u)]_vars

\* C5: every installed profile has 0 < weight <= 400, 0 < height <= 260,
\* 0 < age <= 120, 0 <= activity <= 600, a non-empty city and an override
\* that is absent or within 800 .. 6000.
C5_ProfileInRange ==
    \A u \in Users :
        ~IsNone(ProfileOf(u)) =>
            LET p == Get(ProfileOf(u))
            IN  /\ ~p.weight.nan /\ 0 < p.weight.t /\ p.weight.t <= 4000
                /\ ~p.height.nan /\ 0 < p.height.t /\ p.height.t <= 2600
                /\ 0 < p.age /\ p.age <= 120
                /\ 0 <= p.activity_min /\ p.activity_min <= 600
                /\ p.city # <<>>
                /\ \/ IsNone(p.calorie_goal_override)
                   \/ /\ 800 <= Get(p.calorie_goal_override)
                      /\ Get(p.calorie_goal_override) <= 6000

\* C6: once installed, a profile is never absent again, and it changes
\* only in the step in which the calorie_goal_override state of the user's
\* profile flow accepts its input.
C6_ProfileChangesOnlyAtTerminalStep ==
    [][\A u \in Users :
          /\ ~IsNone(ProfileOf(u)) => ~IsNone(ProfileOf(u)')
          /\ ProfileOf(u)' # ProfileOf(u)
                => /\ fsm_state[u] = S_cal_goal
                   /\ \E text \in Messages :
                          /\ ValidFor(S_cal_goal, text)
                          /\ Route[S_cal_goal][text] = "prof_cal_goal"
                          /\ Handles(u, text)]_vars

\* a user with an installed profile is part-way through a re-run of the profile flow
C6_Witness ==
    \E u \in Users :
        /\ ~IsNone(ProfileOf(u))
        /\ fsm_state[u] = S_height
        /\ last.uid = u /\ last.handler = "prof_weight"

\* the commands that need a profile
T_NeedProfile == {T_log_water_250, T_log_food_banan, T_log_workout_beg_30, T_check_progress}

\* what C7 says of one step: only the instruction, no session, ledger or provider touched
OnlyInstructs(u) ==
    /\ last'.reply = Reply("need_profile")
    /\ last'.calls = <<>>
    /\ SessionUnchanged(u)
    /\ LedgersOf(u)' = LedgersOf(u)
    /\ ProfileOf(u)' = None

\* C7 as claimed: for a user without a profile each of the water, food,
\* workout and progress commands only returns the instruction.
C7_NoProfileOnlyInstructs ==
    [][\A u \in Users, text \in T_NeedProfile :
          (IsNone(ProfileOf(u)) /\ Handles(u, text)) => OnlyInstructs(u)]_vars

\* C7 as amended: for a user without a profile and without an active
\* session each of the water, food, workout and progress commands only
\* returns the instruction: no session, no ledger, no provider call.
C7_NoProfileNoSessionOnlyInstructs ==
    [][\A u \in Users, text \in T_NeedProfile :
          (IsNone(ProfileOf(u)) /\ ~HasSession(u) /\ Handles(u, text))
          => OnlyInstructs(u)]_vars

\* a user without profile or session has just been told to set a profile up
C7_Witness ==
    \E u \in Users :
        /\ IsNone(ProfileOf(u)) /\ ~HasSession(u)
        /\ last.uid = u /\ last.handler = "log_food"
        /\ last.reply = Reply("need_profile")

\* C8: log_food with a profile starts in grams with name and kcal-per-100g
\* when match_food succeeds and in manual_kcal_100g with the name only when
\* it fails; manual_kcal_100g takes a value in 0 .. 2000 to grams and keeps
\* the session on anything else; grams is never entered without kcal-per-100g.
C8_FoodFlowStart ==
    [][\A u \in Users, text \in Messages :
          Handles(u, text) =>
             /\ (last'.handler = "log_food" /\ StartsFoodFlow(u, text))
                   => \E response \in FoodResponses :
                         LET query == Strip(Get(ArgsOf(text)))
                             info == get_food_kcal_100g(query, response)
                         IN  IF IsNone(info)
                             THEN /\ fsm_state'[u] = S_manual_kcal_100g
                                  /\ fsm_data'[u] = update_data(NoData, "food_name", query)
                             ELSE /\ fsm_state'[u] = S_grams
                                  /\ fsm_data'[u] =
                                        [food_name |-> Get(info).name,
                                         kcal_100g |-> Get(info).kcal_100g]
             /\ (fsm_state[u] = S_manual_kcal_100g /\ last'.handler = "food_manual_kcal")
                   => IF RealIn(text, 0, 20000)
                      THEN /\ fsm_state'[u] = S_grams
                           /\ fsm_data'[u] = update_data(fsm_data[u], "kcal_100g",
                                                         Get(FloatOfText(text)))
                      ELSE SessionUnchanged(u)
             /\ fsm_state'[u] = S_grams => "kcal_100g" \in DOMAIN fsm_data'[u]]_vars

\* C9: in the grams state a quantity 0 < g <= 5000 appends exactly
\* {name, g, kcal_per_100g * g / 100} to today's foods, adds that kcal to
\* calories_in, changes nothing else of the ledgers and ends the session;
\* any other input changes neither the ledgers nor the session.
C9_GramsStep ==
    [][\A u \in Users, text \in Messages :
          (/\ fsm_state[u] = S_grams
           /\ Route[S_grams][text] = "food_grams"
           /\ Handles(u, text))
          => IF RealIn(text, 1, 50000)
             THEN LET g == Get(FloatOfText(text))
                      kcal == Num(fsm_data[u].kcal_100g.t * g.t)
                  IN  /\ ~fsm_data[u].kcal_100g.nan
                      /\ LedgersOf(u)' =
                            (today :> [TodayOf(u) EXCEPT
                                          !.foods = Append(@, <<fsm_data[u].food_name, g, kcal>>),
                                          !.cal_in = Num(@.t + kcal.t)])
                            @@ LedgersOf(u)
                      /\ fsm_state'[u] = None
                      /\ fsm_data'[u] = NoData
             ELSE /\ LedgersOf(u)' = LedgersOf(u)
                  /\ SessionUnchanged(u)]_vars

\* a float accumulator is a number >= n
AtLeast(a, n) == ~a.nan /\ a.t >= n

\* C10: after any step, every accumulator of every ledger is >= 0 and
\* >= its value before the step.
C10_AccumulatorsMonotone ==
    [][\A u \in Users :
          /\ \A d \in DOMAIN LedgersOf(u)' :
                /\ LedgersOf(u)'[d].water_ml >= 0
                /\ LedgersOf(u)'[d].workout_extra_water_ml >= 0
                /\ AtLeast(LedgersOf(u)'[d].cal_in, 0)
                /\ AtLeast(LedgersOf(u)'[d].cal_out, 0)
          /\ \A d \in DOMAIN LedgersOf(u) :
                /\ d \in DOMAIN LedgersOf(u)'
                /\ LedgersOf(u)'[d].water_ml >= LedgersOf(u)[d].water_ml
                /\ LedgersOf(u)'[d].workout_extra_water_ml >= LedgersOf(u)[d].workout_extra_water_ml
                /\ ~LedgersOf(u)[d].cal_in.nan
                      => AtLeast(LedgersOf(u)'[d].cal_in, LedgersOf(u)[d].cal_in.t)
                /\ ~LedgersOf(u)[d].cal_out.nan
                      => AtLeast(LedgersOf(u)'[d].cal_out, LedgersOf(u)[d].cal_out.t)]_vars

\* a ledger created in this step: fresh, or fresh but for the one operation
\* the step's handler has logged in it
StartsFromZero(l) ==
    \/ l = NewLedger
    \/ /\ last'.handler = "log_water"
       /\ l.water_ml > 0
       /\ [l EXCEPT !.water_ml = 0] = NewLedger
    \/ /\ last'.handler = "food_grams"
       /\ Len(l.foods) = 1
       /\ l.cal_in = FAdd(Num(0), l.foods[1][3])
       /\ [l EXCEPT !.foods = <<>>, !.cal_in = Num(0)] = NewLedger
    \/ /\ last'.handler = "log_workout"
       /\ Len(l.workouts) = 1
       /\ l.cal_out = Kcal(l.workouts[1][3])
       /\ l.workout_extra_water_ml = ExtraWater(l.workouts[1][2])
       /\ [l EXCEPT !.workouts = <<>>, !.cal_out = Num(0),
                    !.workout_extra_water_ml = 0] = NewLedger

\* C11: a step changes no ledger but the one of the current day; a ledger
\* that appears is the current day's and starts from zero accumulators and
\* empty lists; a food session completed in the grams state is recorded in
\* the ledger of the day of its completion, whenever it was started.
C11_OnlyTodaysLedger ==
    [][\A u \in Users :
          /\ \A d \in DOMAIN LedgersOf(u) :
                /\ d \in DOMAIN LedgersOf(u)'
                /\ d # today => LedgersOf(u)'[d] = LedgersOf(u)[d]
          /\ \A d \in DOMAIN LedgersOf(u)' \ DOMAIN LedgersOf(u) :
                d = today /\ StartsFromZero(LedgersOf(u)'[d])
          /\ (/\ fsm_state[u] = S_grams
              /\ last'.uid = u /\ last'.handler = "food_grams"
              /\ last'.reply = Reply("food_logged")
              /\ steps' = steps + 1)
                => /\ today \in DOMAIN LedgersOf(u)'
                   /\ Len(LedgersOf(u)'[today].foods) = Len(TodayOf(u).foods) + 1]_vars

\* on the second day a food entry has just been recorded for a user whose
\* first day's ledger stays without food
C11_Witness ==
    \E u \in Users :
        /\ today = 2
        /\ last.uid = u /\ last.handler = "food_grams" /\ last.reply = Reply("food_logged")
        /\ DOMAIN LedgersOf(u) = {1, 2}
        /\ LedgersOf(u)[1].foods = <<>>
        /\ Len(LedgersOf(u)[2].foods) = 1

\* what the program holds for one user
StateOf(v) == <<users[v], fsm_state[v], fsm_data[v]>>

\* C12: handling a message of one user changes no other user's profile,
\* ledgers or session, in whatever order the handlers of different users run.
\* (a step handles the message of one user, the one `last` names: what
\* changes for a user v changes in a step that handles a message of v)
C12_UserIsolation ==
    [][\A v \in Users :
          StateOf(v)' # StateOf(v)
             => /\ last'.uid = v
                /\ \E text \in Messages : Handles(v, text)]_vars

\* one user has just logged water while the other is part-way through the
\* profile flow
C12_Witness ==
    \E u \in Users, v \in Users :
        /\ u # v
        /\ last.uid = u /\ last.handler = "log_water" /\ last.reply.tag = "water_logged"
        /\ fsm_state[v] = S_height
        /\ "weight" \in DOMAIN fsm_data[v]

\* the amount of a water command, None when it carries no integer
AmountOf(text) ==
    IF IsNone(ArgsOf(text)) THEN None ELSE ParseInt(Get(ArgsOf(text)))

\* the water goals a user can be told now: one per temperature the provider may give
WaterGoalsOf(u) ==
    {Get(calc_water_goal_ml(Get(ProfileOf(u)), get_temp_c(owm_key, Get(ProfileOf(u)).city, outcome),
                            TodayOf(u).workout_extra_water_ml)) : outcome \in WeatherOutcomes}

\* C13: a water command with an amount a, 0 < a <= 5000, from a user with a
\* profile and no session adds a to today's water_ml, changes nothing else,
\* and reports drunk = the new water_ml and remaining = max(0, goal - drunk)
\* for the current water goal; any other amount changes nothing.  Two logs
\* of 250 against a goal of 3150 report 500 and 2650.
C13_WaterLogging ==
    [][\A u \in Users, text \in WaterTexts :
          (/\ ~IsNone(ProfileOf(u)) /\ ~HasSession(u)
           /\ Handles(u, text))
          => IF ~IsNone(AmountOf(text)) /\ 0 < Get(AmountOf(text)) /\ Get(AmountOf(text)) <= 5000
             THEN LET a == Get(AmountOf(text))
                      drunk == TodayOf(u).water_ml + a
                      told == last'.reply.nums
                  IN  /\ LedgersOf(u)' = (today :> [TodayOf(u) EXCEPT !.water_ml = drunk])
                                            @@ LedgersOf(u)
                      /\ ProfileOf(u)' = ProfileOf(u)
                      /\ SessionUnchanged(u)
                      /\ last'.reply.tag = "water_logged"
                      /\ told[1] = drunk
                      /\ told[2] \in WaterGoalsOf(u)
                      /\ told[3] = IF told[2] - drunk > 0 THEN told[2] - drunk ELSE 0
                      /\ (TodayOf(u).water_ml = 250 /\ a = 250 /\ told[2] = 3150)
                            => told = <<500, 3150, 2650>>
             ELSE StateOf(u)' = StateOf(u)]_vars

\* the second log of 250 ml against a goal of 3150 ml has just been reported
C13_Witness ==
    /\ last.handler = "log_water"
    /\ last.reply.tag = "water_logged"
    /\ last.reply.nums = <<500, 3150, 2650>>
    /\ TodayOf(last.uid).water_ml = 500

\* type and minutes of a workout command: <<t, m>>, None when it has no two
\* words or its last word is no integer
WorkoutOf(text) ==
    IF IsNone(ArgsOf(text)) \/ Len(Split(Get(ArgsOf(text)))) < 2 THEN None
    ELSE LET parts == Split(Get(ArgsOf(text)))
             m == ParseInt(parts[Len(parts)])
         IN  IF IsNone(m) THEN None
             ELSE Some(<<Join(SubSeq(parts, 1, Len(parts) - 1)), Get(m)>>)

\* over a workouts list: the extra water and the kcal burned of its entries
RECURSIVE SumExtra(_)
SumExtra(ws) == IF ws = <<>> THEN 0 ELSE ExtraWater(Head(ws)[2]) + SumExtra(Tail(ws))

RECURSIVE SumBurned(_)
SumBurned(ws) == IF ws = <<>> THEN 0 ELSE Head(ws)[3] + SumBurned(Tail(ws))

\* C14: a workout command with type t and minutes m, 0 < m <= 600, from a
\* user with a profile and no session appends <<t, m, burned>> to today's
\* workouts, adds burned = round(MET(t) * weight * m / 60) to calories_out
\* and trunc(m / 30 * 200) to workout_extra_water_ml; a progress check then
\* reports the water goal of the reported temperature raised by the extra
\* water of today's workouts, and their burned total.  "plavanie" for 40
\* minutes at 80 kg burns 427 and adds 266 ml; "Beg" for 30 minutes burns 392.
C14_WorkoutLogging ==
    [][\A u \in Users :
          (~IsNone(ProfileOf(u)) /\ ~HasSession(u)) =>
             /\ \A text \in WorkoutTexts :
                   (/\ Handles(u, text)
                    /\ ~IsNone(WorkoutOf(text))
                    /\ 0 < Get(WorkoutOf(text))[2] /\ Get(WorkoutOf(text))[2] <= 600)
                   => LET t == Get(WorkoutOf(text))[1]
                          m == Get(WorkoutOf(text))[2]
                          weight == Get(ProfileOf(u)).weight
                          burned == RoundHalfEven(MET(t) * weight.t * m, 6000)
                          extra == ExtraWater(m)
                      IN  /\ LedgersOf(u)' =
                                (today :> [TodayOf(u) EXCEPT
                                              !.workouts = Append(@, <<t, m, burned>>),
                                              !.cal_out = Num(@.t + Kcal(burned).t),
                                              !.workout_extra_water_ml = @ + extra])
                                @@ LedgersOf(u)
                          /\ last'.reply.nums = <<m, burned, extra>>
                          /\ (Lower(t) = W_plavanie /\ m = 40 /\ weight = Num(800))
                                => burned = 427 /\ extra = 266
                          /\ (Lower(t) = W_beg /\ m = 30 /\ weight = Num(800))
                                => burned = 392
             /\ Handles(u, T_check_progress)
                   => /\ last'.reply.tag = "progress"
                      /\ last'.reply.nums[2] =
                            Get(calc_water_goal_ml(Get(ProfileOf(u)), last'.reply.temp, 0))
                               + SumExtra(TodayOf(u).workouts)
                      /\ last'.reply.kcal[2] = Kcal(SumBurned(TodayOf(u).workouts))]_vars

\* a progress check has just reported the day of one 40-minute swim:
\* water goal 3150 + 266 without temperature, 427 kcal burned
C14_Witness ==
    /\ last.handler = "check_progress"
    /\ last.reply.tag = "progress"
    /\ last.reply.temp = None
    /\ last.reply.nums[2] = 3416
    /\ last.reply.kcal[2] = Kcal(427)
    /\ Len(TodayOf(last.uid).workouts) = 1

\* a profile within the ranges of the data model
ValidProfile(p) ==
    /\ ~p.weight.nan /\ 0 < p.weight.t /\ p.weight.t <= 4000
    /\ ~p.height.nan /\ 0 < p.height.t /\ p.height.t <= 2600
    /\ 0 < p.age /\ p.age <= 120
    /\ 0 <= p.activity_min /\ p.activity_min <= 600

\* trunc(weight * 30) as floats give it: weight * 30 falls just under its
\* integer for the weights of BaseRoundsDown
TruncWeightTimes30(w) == IF w.t \in BaseRoundsDown THEN 3 * w.t - 1 ELSE (w.t * 30) \div 10

\* 1000 above 30 C, 500 above 25 C, 0 otherwise or when the temperature is unknown
HeatExtra(temp) ==
    IF IsNone(temp) THEN 0
    ELSE IF Get(temp).t > 300 THEN 1000
    ELSE IF Get(temp).t > 250 THEN 500
    ELSE 0

\* the water goal as C15 states it
WaterGoalStated(p, temp, workout_extra) ==
    TruncWeightTimes30(p.weight) + Trunc(p.activity_min * 500, 30)
        + HeatExtra(temp) + workout_extra

\* the calorie goal as C15 states it:
\* 10*w + 6.25*h - 5*a + m/30*200 is (2400*W + 1500*H)/2400 - 5*a + 20*m/3
\* for W, H in tenths
CalorieGoalStated(p) ==
    IF ~IsNone(p.calorie_goal_override) THEN Get(p.calorie_goal_override)
    ELSE Trunc(2400 * p.weight.t + 1500 * p.height.t - 12000 * p.age
                  + 16000 * p.activity_min, 2400)

\* C15: for every valid profile, temperature (or none) and workout extra,
\* the reported water goal is trunc(weight*30) + trunc(activity/30*500) +
\* heat_extra + workout_extra and the reported calorie goal is the override
\* when one is set, else trunc(10*weight + 6.25*height - 5*age +
\* activity/30*200), whenever the progress command reports them.  Weight
\* 80, height 184, age 26, activity 45, no override, no temperature, no
\* workouts: 3150 ml and 2120 kcal.
C15_ReportedGoals ==
    [][\A u \in Users :
          (/\ ~IsNone(ProfileOf(u))
           /\ ValidProfile(Get(ProfileOf(u)))
           /\ last'.handler = "check_progress"
           /\ Handles(u, T_check_progress))
          => LET p == Get(ProfileOf(u))
                 extra == TodayOf(u).workout_extra_water_ml
                 told == last'.reply
             IN  /\ told.tag = "progress"
                 /\ told.nums[2] = WaterGoalStated(p, told.temp, extra)
                 /\ told.nums[4] = CalorieGoalStated(p)
                 /\ (/\ p.weight = Num(800) /\ p.height = Num(1840) /\ p.age = 26
                     /\ p.activity_min = 45 /\ IsNone(p.calorie_goal_override)
                     /\ IsNone(told.temp) /\ extra = 0)
                       => told.nums[2] = 3150 /\ told.nums[4] = 2120]_vars

\* a progress check without temperature has just reported 3150 ml and 2120
\* kcal to the user of weight 80, height 184, age 26, activity 45
C15_Witness ==
    /\ last.handler = "check_progress"
    /\ last.reply.tag = "progress"
    /\ last.reply.temp = None
    /\ ProfileOf(last.uid) = Some(P_onboarded)
    /\ last.reply.nums[2] = 3150 /\ last.reply.nums[4] = 2120

\* the inputs of the water goal a user has now, with the temperature temp
WaterInputs(u, temp) ==
    [weight |-> Get(ProfileOf(u)).weight.t, activity |-> Get(ProfileOf(u)).activity_min,
     temp |-> temp, extra |-> TodayOf(u).workout_extra_water_ml]

\* no input of a exceeds the one of b (the temperatures both known, or both unknown)
NoInputAbove(a, b) ==
    /\ a.weight <= b.weight
    /\ a.activity <= b.activity
    /\ a.extra <= b.extra
    /\ \/ IsNone(a.temp) /\ IsNone(b.temp)
       \/ ~IsNone(a.temp) /\ ~IsNone(b.temp) /\ Get(a.temp).t <= Get(b.temp).t

\* the step is a progress report and so was the step before it (a progress
\* report changes no input of the goal)
TwoReports ==
    /\ last.handler = "check_progress" /\ last.reply.tag = "progress"
    /\ last'.handler = "check_progress" /\ last'.reply.tag = "progress"
    /\ steps' = steps + 1

\* C16: the water goal does not decrease when weight, activity minutes,
\* temperature or workout extra grow and none of them shrinks: of two
\* progress reports in a row the one with no input above the other's
\* reports no larger a goal; and logging a workout lowers the goal the
\* user would be told at no temperature.
C16_WaterGoalMonotone ==
    [][/\ TwoReports =>
             LET a == WaterInputs(last.uid, last.reply.temp)
                 b == WaterInputs(last'.uid, last'.reply.temp)
             IN  /\ NoInputAbove(a, b) => last.reply.nums[2] <= last'.reply.nums[2]
                 /\ NoInputAbove(b, a) => last'.reply.nums[2] <= last.reply.nums[2]
       /\ \A u \in Users :
             (/\ last'.uid = u /\ last'.handler = "log_workout"
              /\ last'.reply.tag = "workout_logged" /\ steps' = steps + 1)
             => \A outcome \in WeatherOutcomes :
                   Get(calc_water_goal_ml(Get(ProfileOf(u)), outcome,
                                          TodayOf(u).workout_extra_water_ml))
                      <= Get(calc_water_goal_ml(Get(ProfileOf(u)), outcome,
                                                TodayOf(u).workout_extra_water_ml))']_vars

\* a progress report at 30.1 C has just been made to the heavier of two
\* users who differ in weight only, the lighter one having logged no workout
C16_Witness ==
    \E u \in Users, v \in Users :
        /\ last.uid = v /\ last.handler = "check_progress" /\ last.reply.tag = "progress"
        /\ last.reply.temp = Some(Num(301))
        /\ Get(ProfileOf(u)).weight.t < Get(ProfileOf(v)).weight.t
        /\ Get(ProfileOf(u)).activity_min = Get(ProfileOf(v)).activity_min
        /\ TodayOf(u).workout_extra_water_ml = 0
        /\ TodayOf(v).workout_extra_water_ml > 0

(***************************************************************************)
(* C17: the match among the products of a search result                    *)
(***************************************************************************)
\* the score the claim gives a normalised name: 3 for the whole normalised
\* description, 2 for each of its words
StatedScore(qn, nn) ==
    (IF Contains(qn, nn) THEN 3 ELSE 0)
    + 2 * Cardinality({j \in 1..Len(Split(qn)) : Contains(Split(qn)[j], nn)})

\* the places of the products that carry an energy value
Carrying(products) == {i \in 1..Len(products) : ~IsNone(KcalOf(products[i]))}

\* the product at place i carries energy, none that does scores higher, and
\* none that scores as high stands before it
StatedMatch(products, qn, i) ==
    /\ i \in Carrying(products)
    /\ \A j \in Carrying(products) :
          LET si == StatedScore(qn, _norm(NameOf(products[i])))
              sj == StatedScore(qn, _norm(NameOf(products[j])))
          IN  sj <= si /\ (sj = si => i <= j)

\* a food command of user u has just got a product list
GotProducts(u) ==
    /\ last'.uid = u /\ last'.handler = "log_food" /\ steps' = steps + 1
    /\ "got" \in DOMAIN last' /\ ~IsNone(last'.got)

\* C17: when the food provider answers a food command with a product list,
\* the session takes the name and the energy (kcal per 100 g, or kJ per 100 g
\* divided by 4.184) of the product that carries an energy value, scores
\* highest (3 for the whole normalised description in the normalised name,
\* 2 for each word of it) and stands first among those that score as high;
\* when no product carries an energy value the user is asked for the energy.
C17_MatchFood ==
    [][\A u \in Users :
          GotProducts(u) =>
             LET products == Get(last'.got)
                 query == last'.asked
             IN  IF Carrying(products) = {}
                 THEN /\ fsm_state'[u] = S_manual_kcal_100g
                      /\ fsm_data'[u] = update_data(NoData, "food_name", query)
                 ELSE \E i \in 1..Len(products) :
                         /\ StatedMatch(products, _norm(query), i)
                         /\ fsm_state'[u] = S_grams
                         /\ fsm_data'[u] =
                               update_data(update_data(NoData, "food_name", NameOf(products[i])),
                                           "kcal_100g", Get(KcalOf(products[i])))]_vars

\* the provider listed, for "egg bean", the product with both words but not
\* the description, then the two products with the whole description; the
\* session holds the first of the two
C17_Witness ==
    /\ last.handler = "log_food" /\ last.uid = 1
    /\ "got" \in DOMAIN last
    /\ last.got = Some(<<Product(Some(N_bean_egg), None, Some(Num(10460))),
                          Product(Some(N_EGG_BEAN), Some(Num(900)), Some(Num(37660))),
                          Product(Some(N_Egg_Bean_dot), Some(Num(1500)), None)>>)
    /\ fsm_state[1] = S_grams
    /\ fsm_data[1] = update_data(update_data(NoData, "food_name", N_EGG_BEAN),
                                 "kcal_100g", Num(900))

(***************************************************************************)
(* C18: the temperature provider fails                                     *)
(***************************************************************************)
\* the step's command got no temperature: there is no credential, or the
\* answer that shows the temperature shows none
NoTemperature ==
    \/ ~owm_key
    \/ last'.reply.tag \in {"profile_saved", "progress"} /\ IsNone(last'.reply.temp)

\* the water goal of user u's new state with no heat extra
GoalWithoutHeat(u) ==
    Some(WaterGoalStated(Get(ProfileOf(u)'), None, TodayOf(u)'.workout_extra_water_ml))

\* C18: when the temperature provider fails, an accepted last answer of the
\* profile flow installs the profile, ends the session and tells the water
\* goal with no heat extra; a water command with a valid amount adds it to
\* water_ml and tells that goal; a progress check reports with that goal;
\* and no command calls the provider more than once.
C18_TemperatureFailure ==
    [][\A u \in Users, text \in Messages :
          (Handles(u, text) /\ NoTemperature)
          => /\ Len(last'.calls) <= 1
             /\ (last'.handler = "prof_cal_goal" /\ ValidFor(S_cal_goal, text))
                   => /\ ProfileOf(u)' =
                            Some(ProfileFrom(fsm_data[u],
                                             IF SaysNo(text) THEN None ELSE IntOfText(text)))
                      /\ ~HasSession(u)'
                      /\ fsm_data'[u] = NoData
                      /\ last'.reply.tag = "profile_saved"
                      /\ Some(last'.reply.nums[1]) = GoalWithoutHeat(u)
             /\ (/\ last'.handler = "log_water" /\ ~IsNone(ProfileOf(u))
                 /\ ~IsNone(AmountOf(text))
                 /\ 0 < Get(AmountOf(text)) /\ Get(AmountOf(text)) <= 5000)
                   => /\ TodayOf(u)'.water_ml = TodayOf(u).water_ml + Get(AmountOf(text))
                      /\ last'.reply.tag = "water_logged"
                      /\ ~owm_key => Some(last'.reply.nums[2]) = GoalWithoutHeat(u)
             /\ (last'.handler = "check_progress" /\ ~IsNone(ProfileOf(u)))
                   => /\ last'.reply.tag = "progress"
                      /\ Some(last'.reply.nums[2]) = GoalWithoutHeat(u)]_vars

(***************************************************************************)
(* C19: the totals of a ledger and its lists                               *)
(***************************************************************************)
\* a == b for floats: NaN equals nothing
FEq(a, b) == ~a.nan /\ ~b.nan /\ a.t = b.t

\* the kcal of the entries of foods, added up from the first on
RECURSIVE SumKcal(_)
SumKcal(fs) ==
    IF fs = <<>> THEN Num(0) ELSE FAdd(SumKcal(SubSeq(fs, 1, Len(fs) - 1)), fs[Len(fs)][3])

\* list a is the beginning of list b
Prefix(a, b) == Len(a) <= Len(b) /\ SubSeq(b, 1, Len(a)) = a

\* the totals of ledger d are the sums over its lists
TotalsAreSums(d) ==
    /\ FEq(d.cal_in, SumKcal(d.foods))
    /\ FEq(d.cal_out, Kcal(SumBurned(d.workouts)))
    /\ d.workout_extra_water_ml = SumExtra(d.workouts)

\* C19: after every step, in every ledger calories_in is the sum of the kcal
\* of foods, calories_out the sum of the kcal_burned of workouts and
\* workout_extra_water_ml the sum of trunc(minutes / 30 * 200) over workouts;
\* every ledger stays, and its foods and workouts only grow at the end.
C19_TotalsAreSums ==
    [][\A u \in Users :
          /\ \A d \in DOMAIN LedgersOf(u)' : TotalsAreSums(LedgersOf(u)'[d])
          /\ \A d \in DOMAIN LedgersOf(u) :
                /\ d \in DOMAIN LedgersOf(u)'
                /\ Prefix(LedgersOf(u)[d].foods, LedgersOf(u)'[d].foods)
                /\ Prefix(LedgersOf(u)[d].workouts, LedgersOf(u)'[d].workouts)]_vars

(***************************************************************************)
(* C20: the fields a session holds                                         *)
(***************************************************************************)
\* the fields the claim gives each state
FieldsAt(st) ==
    CASE st = None -> {}
      [] st = S_weight -> {}
      [] st = S_height -> {"weight"}
      [] st = S_age -> {"weight", "height"}
      [] st = S_activity -> {"weight", "height", "age"}
      [] st = S_city -> {"weight", "height", "age", "activity_min"}
      [] st = S_cal_goal -> {"weight", "height", "age", "activity_min", "city"}
      [] st = S_manual_kcal_100g -> {"food_name"}
      [] st = S_grams -> {"food_name", "kcal_100g"}

\* C20: in every reachable state each user's session holds exactly the
\* fields of its state: a profile state those of the states before it, the
\* manual_kcal_100g state the food name, the grams state the food name and
\* the kcal per 100 g, and no session nothing.
C20_SessionFields == \A u \in Users : DOMAIN fsm_data[u] = FieldsAt(fsm_state[u])

\* a user who went through the whole profile flow is now asked for the
\* grams of a food, while the other user is in the middle of the profile flow
C20_Witness ==
    \E u \in Users, v \in Users :
        /\ ~IsNone(ProfileOf(u))
        /\ fsm_state[u] = S_grams
        /\ DOMAIN fsm_data[u] = {"food_name", "kcal_100g"}
        /\ fsm_state[v] = S_height
        /\ DOMAIN fsm_data[v] = {"weight"}

====
